---- MODULE Spec2Model ----
(***************************************************************************)
(* AgentProcessor (bytebot-agent, agent.processor): the single-tenant      *)
(* iteration loop, its lifecycle handlers (task.takeover, task.resume,     *)
(* task.cancel, processTask, stopProcessing), the interrupt/retry policy   *)
(* and the computer-tool degradation counter.                              *)
(*                                                                         *)
(* Every runIteration invocation is a frame; a frame's pc is the await it  *)
(* is suspended at (or the setImmediate / setTimeout callback it waits     *)
(* in).  One action resumes one frame from one await and runs the          *)
(* synchronous code up to the next await, as the single-threaded executor  *)
(* does.                                                                   *)
(***************************************************************************)
EXTENDS Integers, Sequences, FiniteSets, TLC

\* ---- bounds of the model --------------------------------------------------
MaxFrames == 2
MaxBlocks == 2
MaxPendingStops == 1
MaxFailures == 2
MaxNameLen == 2
MaxMessages == 4
MaxSummaries == 2
MaxPasses == 2
MaxTokens == 12

\* ---- program constants ----------------------------------------------------
MAX_INTERRUPT_RETRIES == 3
FAILURE_THRESHOLD == 2
DEFAULT_CONTEXT_WINDOW == 200000

Tasks == {"t1", "t2"}
\* the tasks handed to processTask and written by the task service
Submitted == {"t1"}
NULL == "null"

TaskStatus == {"RUNNING", "NEEDS_HELP", "COMPLETED", "FAILED", "CANCELLED"}
Settled == {"NEEDS_HELP", "COMPLETED", "FAILED", "CANCELLED"}

\* kinds of content block a provider response may hold
BlockKinds ==
  {"text", "computer", "create_task", "other_tool",
   "st_completed", "st_needs_help", "st_failed"}
SetStatusKinds == {"st_completed", "st_needs_help", "st_failed"}
ToolUseKinds == BlockKinds \ {"text"}

ErrKinds == {"Interrupt", "Other"}

VARIABLES
  isProcessing,          \* AgentProcessor.isProcessing
  currentTaskId,         \* AgentProcessor.currentTaskId
  abortController,       \* AgentProcessor.abortController: "null", "live", "aborted"
  retryCounts,           \* AgentProcessor.retryCounts (partial map)
  computerToolFailures,  \* AgentProcessor.computerToolFailures (partial map)
  computerToolsDisabled, \* AgentProcessor.computerToolsDisabled (partial map)
  frames,                \* the runIteration invocations and queued callbacks
  stopPending,           \* stopProcessing calls awaiting inputCaptureService.stop()
  inputCapture,          \* inputCaptureService: started and not stopped since
  status,                \* task store: status of each task row
  completedAt,           \* task store: the row has been given a completedAt
                         \* (written, never read: followed where kept)
  restarted,             \* history: processTask accepted since the flag was set
  recovered,             \* history: a computer tool succeeded since the last failure
  last,                  \* history: the step taken last, where a claim needs it
  rejected,              \* history: the last processTask found the processor busy
  rawModel,              \* task.model as persisted (the resolver's input)
  model,                 \* the descriptor resolved from it, << >> before
  totalTokens,           \* agentResponse.tokenUsage.totalTokens of a turn
  contextWindow,         \* model.contextWindow of the turn: <<n>>, << >> undefined
  shouldSummarize,       \* shouldSummarize of the turn, << >> before line 321
  messages,              \* message store of the task: summaryId by message id, 0 null
  summaries,             \* summaries created for the task
  passes,                \* iterations as far as they touch the message store
  covered                \* history: ids passed to a summarization that succeeded

\* the processor and its iterations
procVars ==
  <<isProcessing, currentTaskId, abortController, retryCounts,
    computerToolFailures, computerToolsDisabled, frames, stopPending,
    inputCapture, status, completedAt, restarted, recovered, last,
    rejected>>

\* the model descriptor resolver
\* the token usage of a turn against the context window
usageVars == <<totalTokens, contextWindow, shouldSummarize>>

modelVars == <<rawModel, model, usageVars>>

\* the message store and the summarization
storeVars == <<messages, summaries, passes, covered>>

vars == <<procVars, modelVars, storeVars>>

FrameIds == 1..MaxFrames

RECURSIVE SeqsUpTo(_)
SeqsUpTo(n) ==
  IF n = 0 THEN {<< >>}
  ELSE LET S == SeqsUpTo(n - 1)
       IN  S \cup {Append(s, b) : s \in {x \in S : Len(x) = n - 1}, b \in BlockKinds}

\* agentResponse.contentBlocks of a response that is not empty
Responses == SeqsUpTo(MaxBlocks) \ {<< >>}

\* `this.map[taskId] || 0` and `this.map[taskId]` read as a condition
Get(m, t) == IF t \in DOMAIN m THEN m[t] ELSE 0
Flag(m, t) == IF t \in DOMAIN m THEN m[t] ELSE FALSE
Put(m, t, v) == [x \in DOMAIN m \cup {t} |-> IF x = t THEN v ELSE m[x]]
Delete(m, t) == [x \in DOMAIN m \ {t} |-> m[x]]

\* history value of a step no claim singles out
Quiet == <<"step", NULL>>

\* A frame: pc, the task the invocation was called with, and its locals:
\*   blocks  the content blocks the loop has still to visit
\*   nuse    ToolUse blocks of the persisted assistant message
\*   nres    generatedToolResults.length
\*   sts     setTaskStatusToolUseBlock.input.status, "none" when null
\*   err     the error caught
\*   sig     the signal handed to the provider call in flight; cur: it is the
\*           signal of this.abortController
\* and history fields:
\*   cx      a task.cancel arrived while the provider call was in flight:
\*           stopProcessing continuations to run before its handler has
\*           cleared the processing state (0: it has), -1: none arrived
\*   open    the iteration that queued this callback left its assistant
\*           message with ToolUse blocks short of a ToolResult for each
\*   late    the iteration began with computerToolsDisabled[task] set and no
\*           processTask(task) since
\*   hit     a cancellation was fired while the iteration had not yet called
\*           the provider, and no task.resume or processTask came after it
\*   asked   the response of the turn held a set_task_status 'completed'
FreeFrame ==
  [pc |-> "free", task |-> NULL, blocks |-> << >>, nuse |-> 0, nres |-> 0,
   sts |-> "none", err |-> "none", sig |-> "none", cur |-> FALSE,
   cx |-> -1, open |-> FALSE, late |-> FALSE, hit |-> FALSE, asked |-> FALSE]

Frame(p, t) == [FreeFrame EXCEPT !.pc = p, !.task = t]

FreeIds == {f \in FrameIds : frames[f].pc = "free"}
Slot == CHOOSE f \in FreeIds : \A g \in FreeIds : f <= g

\* pcs of a runIteration invocation that passed its isProcessing check and has
\* not returned
InFlightPcs ==
  {"fetch", "assemble", "noService", "llm", "llmFail", "emptyFail",
   "persistAssistant",
   "summarize", "createSummary", "attachSummary",
   "tool", "createTask", "degrade", "persistResults", "statusUpdate",
   "catchUpdate"}
InFlight(f) == frames[f].pc \in InFlightPcs

\* the response holds a set_task_status block with status 'completed'
AsksCompleted(bs) == \E i \in 1..Len(bs) : bs[i] = "st_completed"

CountUses(bs) == Cardinality({i \in 1..Len(bs) : bs[i] \in ToolUseKinds})

\* ---- the model descriptor resolver ---------------------------------------
\* A string is a sequence of tokens, none of which starts with or contains
\* another: startsWith and includes are tests on the tokens.
Tokens ==
  {"claude", "gemini", "gpt-", "openai", "anthropic", "google", "proxy", "x"}

RECURSIVE StringsUpTo(_)
StringsUpTo(n) ==
  IF n = 0 THEN {<< >>}
  ELSE LET S == StringsUpTo(n - 1)
       IN  S \cup {Append(x, k) : x \in {y \in S : Len(y) = n - 1}, k \in Tokens}

Strings == StringsUpTo(MaxNameLen)

StartsWith(name, tok) == Len(name) > 0 /\ name[1] = tok
Includes(name, tok) == \E i \in 1..Len(name) : name[i] = tok

\* a property of the persisted object: absent, a number or a string
Undefined == [type |-> "undefined", str |-> << >>]
NumberProp == [type |-> "number", str |-> << >>]
StringProp(x) == [type |-> "string", str |-> x]
PropValues == {Undefined, NumberProp} \cup {StringProp(x) : x \in Strings}
SideProps == {Undefined, NumberProp, StringProp(<<"x">>)}

\* the persisted value: null, a number, an array, a string or an object
Plain(type) ==
  [type |-> type, str |-> << >>, provider |-> Undefined, name |-> Undefined,
   title |-> Undefined, contextWindow |-> Undefined]
StringValue(x) == [Plain("string") EXCEPT !.str = x]
ObjectValue(p, n, t, c) ==
  [Plain("object") EXCEPT !.provider = p, !.name = n, !.title = t,
                          !.contextWindow = c]

RawModels ==
  {Plain("null"), Plain("number"), Plain("array")}
    \cup {StringValue(x) : x \in Strings}
    \cup {ObjectValue(p, n, t, c) :
            p \in PropValues, n \in PropValues, t \in SideProps, c \in SideProps}

\* an inference that looks for openai before the prefixes
inferProviderOpenaiFirst(name) ==
  IF StartsWith(name, "gpt-") \/ Includes(name, "openai") THEN <<"openai">>
  ELSE IF StartsWith(name, "claude") THEN <<"anthropic">>
  ELSE IF StartsWith(name, "gemini") THEN <<"google">>
  ELSE <<"proxy">>

\* lines 568-575
inferProvider(name) ==
  IF StartsWith(name, "claude") THEN <<"anthropic">>
  ELSE IF StartsWith(name, "gemini") THEN <<"google">>
  ELSE IF StartsWith(name, "gpt-") \/ Includes(name, "openai") THEN <<"openai">>
  ELSE <<"proxy">>

\* lines 66-71: the providers the processor has a service for
Services == {<<"anthropic">>, <<"openai">>, <<"google">>, <<"proxy">>}

\* lines 236-240 and 249-253
DefaultModel ==
  [provider |-> <<"openai">>, name |-> <<"gpt-", "4.1-mini">>,
   title |-> <<"gpt-", "4.1-mini">>, contextWindow |-> "undefined"]

\* lines 210-254: task.model coerced into a descriptor
CoerceModel(raw) ==
  IF raw.type = "object"
  THEN IF raw.provider.type = "string" /\ raw.name.type = "string"
       THEN [provider |-> raw.provider.str,
             name |-> raw.name.str,
             title |-> IF raw.title.type = "string" THEN raw.title.str
                       ELSE raw.name.str,
             contextWindow |-> IF raw.contextWindow.type = "number"
                               THEN "number" ELSE "undefined"]
       ELSE IF raw.name.type = "string"
       THEN [provider |-> inferProvider(raw.name.str),
             name |-> raw.name.str,
             title |-> IF raw.title.type = "string" THEN raw.title.str
                       ELSE raw.name.str,
             contextWindow |-> "undefined"]
       ELSE DefaultModel
  ELSE IF raw.type = "string"
  THEN [provider |-> inferProvider(raw.str), name |-> raw.str,
        title |-> raw.str, contextWindow |-> "undefined"]
  ELSE DefaultModel

\* ---- the processor -------------------------------------------------------
ProcIdle ==
  /\ isProcessing = FALSE
  /\ currentTaskId = NULL
  /\ abortController = "null"
  /\ retryCounts = << >>
  /\ computerToolFailures = << >>
  /\ computerToolsDisabled = << >>
  /\ frames = [f \in FrameIds |-> FreeFrame]
  /\ stopPending = 0
  /\ status = [t \in Tasks |-> "RUNNING"]
  /\ inputCapture = FALSE
  /\ last = <<"Init", NULL>>
  /\ rejected = FALSE

\* the histories of restarts and recoveries and the completedAt of the rows
\* are kept for the tasks they are opened for: for none here
ProcInit ==
  /\ ProcIdle
  /\ restarted = << >>
  /\ recovered = << >>
  /\ completedAt = << >>

\* the histories of task t are kept
Kept(t) == t \in DOMAIN restarted

\* a history entry of task t, where one is kept
Note(h, t, v) == IF t \in DOMAIN h THEN [h EXCEPT ![t] = v] ELSE h

\* the model of the task handed to the processor: a name the inference knows,
\* or a descriptor of a provider the processor has no service for
PersistedModels ==
  {StringValue(<<"gpt-">>),
   ObjectValue(StringProp(<<"x">>), StringProp(<<"claude">>), Undefined,
               Undefined)}

\* a task with its persisted model, not yet resolved
ModelIdle ==
  /\ rawModel \in PersistedModels
  /\ model = << >>

\* the first message of the task, no iteration begun
NoPass == [pc |-> "off", latest |-> FALSE, ctx |-> {}, sid |-> 0]

StoreIdle ==
  /\ messages = <<0>>
  /\ summaries = 0
  /\ passes = [p \in 1..MaxPasses |-> NoPass]
  /\ covered = {}

\* no turn has reported its token usage
UsageIdle ==
  /\ totalTokens = 0
  /\ contextWindow = << >>
  /\ shouldSummarize = << >>

Init == ProcInit /\ ModelIdle /\ UsageIdle /\ StoreIdle

\* ---- the cancellation handle ----------------------------------------------
\* new AbortController(): the signals handed out before belong to the old one
Renewed(fs) == [f \in FrameIds |-> [fs[f] EXCEPT !.cur = FALSE]]

\* new AbortController() on behalf of the user: task.resume, processTask
Restarted(fs) == [f \in FrameIds |-> [fs[f] EXCEPT !.cur = FALSE, !.hit = FALSE]]

\* this.abortController?.abort(): signals of the current controller fire
Aborted(fs) ==
  [f \in FrameIds |->
     IF fs[f].cur /\ fs[f].sig = "live" THEN [fs[f] EXCEPT !.sig = "aborted"]
     ELSE IF fs[f].pc \in {"fetch", "assemble"} THEN [fs[f] EXCEPT !.hit = TRUE]
     ELSE fs[f]]

AbortCurrent == IF abortController = "null" THEN "null" ELSE "aborted"

\* ---- lifecycle handlers ---------------------------------------------------
\* runIteration from its top to its first await (lines 141-146), for a caller
\* that has seen isProcessing true
Begun(t) ==
  [Frame("fetch", t) EXCEPT
     !.late = /\ Kept(t)
              /\ Flag(computerToolsDisabled, t)
              /\ ~restarted[t]]

\* a processor that never takes itself for busy
BusyNever == FALSE

\* line 123
Busy == isProcessing

ProcessTask(t) ==
  /\ last' = Quiet
  /\ IF Busy
     THEN UNCHANGED <<isProcessing, currentTaskId, abortController, frames,
                      restarted, recovered>>
     ELSE /\ FreeIds # {}
          /\ isProcessing' = TRUE
          /\ currentTaskId' = t
          /\ abortController' = "live"
          /\ frames' = [Restarted(frames) EXCEPT ![Slot] = Frame("fetch", t)]
          /\ restarted' = Note(restarted, t, Flag(computerToolsDisabled, t))
          /\ UNCHANGED recovered
  /\ UNCHANGED <<retryCounts, computerToolFailures, computerToolsDisabled,
                 stopPending, status>>
  /\ UNCHANGED <<modelVars, storeVars, inputCapture, completedAt>>

\* processTask as the processor's callers see it
Submit(t) == ProcessTask(t) /\ UNCHANGED rejected

\* processTask with a note of whether it found the processor busy
SubmitNoted(t) == ProcessTask(t) /\ rejected' = Busy

\* a takeover that aborts whatever the processor is working on
TakeoverAppliesToAny(t) == isProcessing

\* line 95
TakeoverApplies(t) == currentTaskId = t /\ isProcessing

HandleTaskTakeover(t) ==
  /\ last' = Quiet
  /\ inputCapture' = TRUE
  /\ IF TakeoverApplies(t)
     THEN /\ abortController' = AbortCurrent
          /\ frames' = Aborted(frames)
     ELSE UNCHANGED <<abortController, frames>>
  /\ UNCHANGED <<isProcessing, currentTaskId, retryCounts, computerToolFailures,
                 computerToolsDisabled, stopPending, status, restarted,
                 recovered>>
  /\ UNCHANGED <<modelVars, storeVars, rejected, completedAt>>

HandleTaskResume(t) ==
  /\ last' = Quiet
  /\ IF currentTaskId = t /\ isProcessing
     THEN /\ FreeIds # {}
          /\ abortController' = "live"
          /\ frames' = [Restarted(frames) EXCEPT ![Slot] = Begun(t)]
     ELSE UNCHANGED <<abortController, frames>>
  /\ UNCHANGED <<isProcessing, currentTaskId, retryCounts, computerToolFailures,
                 computerToolsDisabled, stopPending, status, restarted,
                 recovered>>
  /\ UNCHANGED <<modelVars, storeVars, rejected, inputCapture, completedAt>>

\* a cancel delivered while a provider call is in flight is remembered on the
\* frame
Marked(fs, n) ==
  [f \in FrameIds |->
     IF fs[f].pc = "llm" /\ fs[f].cx = -1 THEN [fs[f] EXCEPT !.cx = n]
     ELSE fs[f]]

\* stopProcessing up to `await this.inputCaptureService.stop()`: lines 552-561
StopBegin(mark) ==
  IF ~isProcessing
  THEN UNCHANGED <<abortController, frames, stopPending>>
  ELSE /\ stopPending < MaxPendingStops
       /\ abortController' = AbortCurrent
       /\ frames' = IF mark THEN Marked(Aborted(frames), stopPending + 1)
                    ELSE Aborted(frames)
       /\ stopPending' = stopPending + 1

HandleTaskCancel(t) ==
  /\ last' = Quiet
  /\ StopBegin(TRUE)
  /\ UNCHANGED <<isProcessing, currentTaskId, retryCounts, computerToolFailures,
                 computerToolsDisabled, status, restarted,
                 recovered>>
  /\ UNCHANGED <<modelVars, storeVars, rejected, inputCapture, completedAt>>

StopProcessing ==
  /\ last' = Quiet
  /\ StopBegin(FALSE)
  /\ UNCHANGED <<isProcessing, currentTaskId, retryCounts, computerToolFailures,
                 computerToolsDisabled, status, restarted,
                 recovered>>
  /\ UNCHANGED <<modelVars, storeVars, rejected, inputCapture, completedAt>>

Unmarked(fs) ==
  [f \in FrameIds |->
     IF fs[f].cx > 0 THEN [fs[f] EXCEPT !.cx = @ - 1] ELSE fs[f]]

\* stopProcessing that forgets currentTaskId
StopClearKeepsTask ==
  /\ isProcessing' = FALSE
  /\ currentTaskId' = currentTaskId

\* lines 563-564
StopClear ==
  /\ isProcessing' = FALSE
  /\ currentTaskId' = NULL

\* stopProcessing after its await
StopFinish ==
  /\ stopPending > 0
  /\ last' = Quiet
  /\ stopPending' = stopPending - 1
  /\ frames' = Unmarked(frames)
  /\ StopClear
  /\ inputCapture' = FALSE
  /\ UNCHANGED <<abortController, retryCounts, computerToolFailures,
                 computerToolsDisabled, status, restarted,
                 recovered>>
  /\ UNCHANGED <<modelVars, storeVars, rejected, completedAt>>

\* the stop whose await failed leaves no mark on the provider calls
Dropped(fs) ==
  [f \in FrameIds |->
     IF fs[f].cx = 1 THEN [fs[f] EXCEPT !.cx = -1]
     ELSE IF fs[f].cx > 1 THEN [fs[f] EXCEPT !.cx = @ - 1]
     ELSE fs[f]]

\* inputCaptureService.stop() rejects: stopProcessing is left by the
\* exception, lines 563-564 are not reached (line 561)
StopThrow ==
  /\ stopPending > 0
  /\ last' = Quiet
  /\ stopPending' = stopPending - 1
  /\ frames' = Dropped(frames)
  /\ UNCHANGED <<isProcessing, currentTaskId, abortController, retryCounts,
                 computerToolFailures, computerToolsDisabled, status,
                 restarted, recovered>>
  /\ UNCHANGED <<modelVars, storeVars, rejected, inputCapture, completedAt>>

\* the task row is also written by the task service on behalf of the user
\* (takeover, resume, cancel)
ExternalUpdate(t, s) ==
  /\ s \in {"RUNNING", "NEEDS_HELP", "CANCELLED"}
  /\ status[t] # s
  /\ last' = Quiet
  /\ status' = [status EXCEPT ![t] = s]
  /\ UNCHANGED <<isProcessing, currentTaskId, abortController, retryCounts,
                 computerToolFailures, computerToolsDisabled, frames,
                 stopPending, restarted,
                 recovered>>
  /\ UNCHANGED <<modelVars, storeVars, rejected, inputCapture, completedAt>>

\* ---- runIteration --------------------------------------------------------
\* a frame that keeps only what the rest of the invocation reads
Queued(p, fr) == [Frame(p, fr.task) EXCEPT !.open = fr.open]

StatusOf(b) ==
  IF b = "st_completed" THEN "completed"
  ELSE IF b = "st_needs_help" THEN "needs_help"
  ELSE "failed"

\* a switch with a case for every status the block may name
AfterResultsAnyStatus(fr) ==
  IF fr.sts # "none"
  THEN [Queued("statusUpdate", fr) EXCEPT !.sts = fr.sts, !.nres = fr.nres]
  ELSE [fr EXCEPT !.pc = "end"]

\* lines 475-490: the deferred status transition, then line 493
AfterResults(fr) ==
  IF fr.sts \in {"completed", "needs_help"}
  THEN [Queued("statusUpdate", fr) EXCEPT !.sts = fr.sts, !.nres = fr.nres]
  ELSE [fr EXCEPT !.pc = "end"]

\* a loop end that leaves the results of the turn unpersisted
AfterSweepUnpersisted(fr) == AfterResults([fr EXCEPT !.open = fr.nuse > 0])

\* lines 467-473
AfterSweep(fr) ==
  IF fr.nres > 0
  THEN [fr EXCEPT !.pc = "persistResults"]
  ELSE AfterResults([fr EXCEPT !.open = fr.nuse > 0])

\* lines 396-465: the block loop from the head of fr.blocks to its next await
RECURSIVE Sweep(_)
Sweep(fr) ==
  IF fr.blocks = << >> THEN AfterSweep(fr)
  ELSE LET b == Head(fr.blocks)
       IN  IF b = "computer" THEN [fr EXCEPT !.pc = "tool"]
           ELSE IF b = "create_task" THEN [fr EXCEPT !.pc = "createTask"]
           ELSE IF b \in SetStatusKinds
           THEN Sweep([fr EXCEPT !.blocks = Tail(@), !.nres = @ + 1,
                                 !.sts = StatusOf(b)])
           ELSE Sweep([fr EXCEPT !.blocks = Tail(@)])

\* an iteration that schedules nothing
ScheduleNever(fr) == FreeFrame

\* lines 492-497: schedule the next iteration if still processing
ScheduleNext(fr) ==
  IF isProcessing THEN Queued("immediate", fr) ELSE FreeFrame

Settle(fr) == IF fr.pc = "end" THEN ScheduleNext(fr) ELSE fr

\* the retry test off by one
CanRetryInclusive(current) == current <= MAX_INTERRUPT_RETRIES

\* line 507
CanRetry(current) == current < MAX_INTERRUPT_RETRIES

\* lines 498-529 and 535-539: the outer catch up to the await of its branch
Catch(f, e, open) ==
  LET t == frames[f].task
      current == Get(retryCounts, t)
      fr == [frames[f] EXCEPT !.open = open]
  IN  IF e = "Interrupt" /\ CanRetry(current)
      THEN /\ retryCounts' = Put(retryCounts, t, current + 1)
           /\ frames' = [frames EXCEPT ![f] = Queued("timer", fr)]
      ELSE /\ retryCounts' = retryCounts
           /\ frames' = [frames EXCEPT ![f] =
                           [Queued("catchUpdate", fr) EXCEPT !.err = e]]

\* an await of the iteration rejects and the outer catch takes the error
Thrown(f, e, open) ==
  /\ last' = Quiet
  /\ Catch(f, e, open)
  /\ UNCHANGED <<isProcessing, currentTaskId, abortController,
                 computerToolFailures, computerToolsDisabled, stopPending,
                 status, restarted,
                 recovered>>
  /\ UNCHANGED <<modelVars, storeVars, rejected, inputCapture, completedAt>>

\* the setImmediate callback: runIteration from its top (lines 141-146)
RunImmediate(f) ==
  /\ frames[f].pc = "immediate"
  /\ last' = Quiet
  /\ frames' = [frames EXCEPT ![f] =
                  IF isProcessing THEN Begun(frames[f].task) ELSE FreeFrame]
  /\ UNCHANGED <<isProcessing, currentTaskId, abortController, retryCounts,
                 computerToolFailures, computerToolsDisabled, stopPending,
                 status, restarted,
                 recovered>>
  /\ UNCHANGED <<modelVars, storeVars, rejected, inputCapture, completedAt>>

\* the setTimeout callback of the retry: lines 513-524
RunTimer(f) ==
  /\ frames[f].pc = "timer"
  /\ last' = Quiet
  /\ frames' = [frames EXCEPT ![f] =
                  IF isProcessing /\ currentTaskId = frames[f].task
                  THEN Begun(frames[f].task)
                  ELSE FreeFrame]
  /\ UNCHANGED <<isProcessing, currentTaskId, abortController, retryCounts,
                 computerToolFailures, computerToolsDisabled, stopPending,
                 status, restarted,
                 recovered>>
  /\ UNCHANGED <<modelVars, storeVars, rejected, inputCapture, completedAt>>

\* the wind-down that forgets currentTaskId
NotRunningKeepsTask ==
  /\ isProcessing' = FALSE
  /\ currentTaskId' = currentTaskId

\* lines 152-153
NotRunningClear ==
  /\ isProcessing' = FALSE
  /\ currentTaskId' = NULL

\* findById returns: lines 146-163
FetchReturn(f) ==
  /\ frames[f].pc = "fetch"
  /\ LET t == frames[f].task
     IN  IF status[t] # "RUNNING"
         THEN /\ last' = <<"NotRunning", t>>
              /\ NotRunningClear
              /\ frames' = [frames EXCEPT ![f] = FreeFrame]
              /\ UNCHANGED abortController
         ELSE /\ last' = Quiet
              /\ abortController' = "live"
              /\ frames' = [Renewed(frames) EXCEPT ![f].pc = "assemble"]
              /\ UNCHANGED <<isProcessing, currentTaskId>>
  /\ UNCHANGED <<retryCounts, computerToolFailures, computerToolsDisabled,
                 stopPending, status, restarted,
                 recovered>>
  /\ UNCHANGED <<modelVars, storeVars, rejected, inputCapture, completedAt>>

\* findById throws
FetchThrow(f, e) ==
  /\ frames[f].pc = "fetch"
  /\ last' = Quiet
  /\ Catch(f, e, FALSE)
  /\ UNCHANGED <<isProcessing, currentTaskId, abortController,
                 computerToolFailures, computerToolsDisabled, stopPending,
                 status, restarted,
                 recovered>>
  /\ UNCHANGED <<modelVars, storeVars, rejected, inputCapture, completedAt>>

\* line 256-257: this.services[model.provider]
HasService(m) == m.provider \in Services

\* summariesService.findLatest or messagesService.findUnsummarized rejects
AssembleThrow(f, e) ==
  /\ frames[f].pc = "assemble"
  /\ Thrown(f, e, FALSE)

\* summariesService.findLatest and messagesService.findUnsummarized return;
\* the context is assembled, the model descriptor resolved and generateMessage
\* called with this.abortController.signal: lines 163-277
AssembleReturn(f) ==
  /\ frames[f].pc = "assemble"
  /\ last' = Quiet
  /\ frames' = IF HasService(CoerceModel(rawModel))
                THEN [frames EXCEPT ![f].pc = "llm", ![f].sig = abortController,
                                    ![f].cur = TRUE, ![f].hit = FALSE]
                ELSE [frames EXCEPT ![f] = Frame("noService", frames[f].task)]
  /\ UNCHANGED <<isProcessing, currentTaskId, abortController, retryCounts,
                 computerToolFailures, computerToolsDisabled, stopPending,
                 status, restarted,
                 recovered>>
  /\ UNCHANGED <<modelVars, storeVars, rejected, inputCapture, completedAt>>

\* generateMessage returns a response, a provider that honours its signal
\* never one of a cancelled call: lines 293-312
LlmReturn(f, empty) ==
  /\ frames[f].pc = "llm"
  /\ frames[f].sig = "live"
  /\ last' = Quiet
  /\ frames' = [frames EXCEPT ![f] =
                  [Frame(IF empty THEN "emptyFail" ELSE "persistAssistant",
                         frames[f].task)
                     EXCEPT !.late = frames[f].late]]
  /\ UNCHANGED <<isProcessing, currentTaskId, abortController, retryCounts,
                 computerToolFailures, computerToolsDisabled, stopPending,
                 status, restarted,
                 recovered>>
  /\ UNCHANGED <<modelVars, storeVars, rejected, inputCapture, completedAt>>

\* the catch of lines 278-287 up to its await: every error of the provider
\* call, the Interrupt included, takes the FAILED update
LlmCatch(fr, e) ==
  [Frame("llmFail", fr.task) EXCEPT
     !.err = e, !.cx = IF fr.cx = 0 THEN 0 ELSE -1]

\* generateMessage throws; the Interrupt is the error of a cancelled call
LlmThrow(f, e) ==
  /\ frames[f].pc = "llm"
  /\ e = "Interrupt" => frames[f].sig = "aborted"
  /\ last' = Quiet
  /\ frames' = [frames EXCEPT ![f] = LlmCatch(frames[f], e)]
  /\ UNCHANGED <<isProcessing, currentTaskId, abortController, retryCounts,
                 computerToolFailures, computerToolsDisabled, stopPending,
                 status, restarted,
                 recovered>>
  /\ UNCHANGED <<modelVars, storeVars, rejected, inputCapture, completedAt>>

\* the awaits of a FAILED update outside the outer catch: lines 260, 284, 303
FailPcs == {"noService", "llmFail", "emptyFail"}

\* that update rejects; the rejection of line 284, thrown inside the inner
\* catch, reaches the outer catch as the others do
FailUpdateThrow(f, e) ==
  /\ frames[f].pc \in FailPcs
  /\ Thrown(f, e, FALSE)

\* lines 260-266, lines 284-290 after the await, and lines 303-309
FailUpdate(f) ==
  /\ frames[f].pc \in FailPcs
  /\ last' = Quiet
  /\ status' = [status EXCEPT ![frames[f].task] = "FAILED"]
  /\ isProcessing' = FALSE
  /\ currentTaskId' = NULL
  /\ frames' = [frames EXCEPT ![f] = FreeFrame]
  /\ UNCHANGED <<abortController, retryCounts, computerToolFailures,
                 computerToolsDisabled, stopPending, restarted,
                 recovered>>
  /\ UNCHANGED <<modelVars, storeVars, rejected, inputCapture, completedAt>>

\* messagesService.create of the assistant message rejects: line 312
PersistAssistantThrow(f, e) ==
  /\ frames[f].pc = "persistAssistant"
  /\ Thrown(f, e, FALSE)

\* the awaits of the summarization: lines 327, 364, 369
SummaryPcs == {"summarize", "createSummary", "attachSummary"}

\* lines 388-396: the block loop starts on the assistant response
Dispatched(fr) == Settle(Sweep([fr EXCEPT !.sig = "none", !.cur = FALSE]))

\* a summarization whose error reaches the outer catch
SummaryRethrown(fr) == [Queued("catchUpdate", fr) EXCEPT !.err = "Other"]

\* lines 378-385: the error of the summarization is logged, no more
SummaryCaught(fr) == Dispatched(fr)

\* messagesService.create of the assistant message returns and the block loop
\* starts; the content blocks are drawn where the iteration first reads them:
\* lines 312-396
PersistAssistantThen(f, resp, summarizing) ==
  /\ frames[f].pc = "persistAssistant"
  /\ last' = Quiet
  /\ LET fr == [frames[f] EXCEPT !.blocks = resp, !.nuse = CountUses(resp),
                                 !.asked = /\ Kept(frames[f].task)
                                           /\ AsksCompleted(resp)]
     IN  frames' = [frames EXCEPT ![f] =
                      IF ~summarizing THEN Dispatched(fr)
                      ELSE IF abortController = "null" THEN SummaryCaught(fr)
                      ELSE [fr EXCEPT !.pc = "summarize",
                                      !.sig = abortController, !.cur = TRUE]]
  /\ UNCHANGED <<isProcessing, currentTaskId, abortController, retryCounts,
                 computerToolFailures, computerToolsDisabled, stopPending,
                 status, restarted,
                 recovered>>
  /\ UNCHANGED <<modelVars, storeVars, rejected, inputCapture, completedAt>>

\* a turn whose token usage is below the threshold of line 321
PersistAssistant(f, resp) == PersistAssistantThen(f, resp, FALSE)

\* the summarization call returns, a provider that honours its signal never
\* for a cancelled call: lines 327-362
SummarizeReturn(f) ==
  /\ frames[f].pc = "summarize"
  /\ frames[f].sig = "live"
  /\ last' = Quiet
  /\ frames' = [frames EXCEPT ![f].pc = "createSummary", ![f].sig = "none",
                              ![f].cur = FALSE]
  /\ UNCHANGED <<isProcessing, currentTaskId, abortController, retryCounts,
                 computerToolFailures, computerToolsDisabled, stopPending,
                 status, restarted,
                 recovered>>
  /\ UNCHANGED <<modelVars, storeVars, rejected, inputCapture, completedAt>>

\* summariesService.create returns: lines 364-367
SummarizeCreate(f) ==
  /\ frames[f].pc = "createSummary"
  /\ last' = Quiet
  /\ frames' = [frames EXCEPT ![f].pc = "attachSummary"]
  /\ UNCHANGED <<isProcessing, currentTaskId, abortController, retryCounts,
                 computerToolFailures, computerToolsDisabled, stopPending,
                 status, restarted,
                 recovered>>
  /\ UNCHANGED <<modelVars, storeVars, rejected, inputCapture, completedAt>>

\* attachSummary returns and the block loop starts: lines 369-396
SummarizeAttach(f) ==
  /\ frames[f].pc = "attachSummary"
  /\ last' = Quiet
  /\ frames' = [frames EXCEPT ![f] = Dispatched(frames[f])]
  /\ UNCHANGED <<isProcessing, currentTaskId, abortController, retryCounts,
                 computerToolFailures, computerToolsDisabled, stopPending,
                 status, restarted,
                 recovered>>
  /\ UNCHANGED <<modelVars, storeVars, rejected, inputCapture, completedAt>>

\* an await of the summarization throws, the Interrupt is the error of a
\* cancelled summarization call: lines 378-385
SummarizeThrow(f, e) ==
  /\ frames[f].pc \in SummaryPcs
  /\ e = "Interrupt" /\ frames[f].pc = "summarize" => frames[f].sig = "aborted"
  /\ last' = <<"SummaryThrew", frames[f].task>>
  /\ frames' = [frames EXCEPT ![f] = SummaryCaught(frames[f])]
  /\ UNCHANGED <<isProcessing, currentTaskId, abortController, retryCounts,
                 computerToolFailures, computerToolsDisabled, stopPending,
                 status, restarted,
                 recovered>>
  /\ UNCHANGED <<modelVars, storeVars, rejected, inputCapture, completedAt>>

\* the degradation test off by one
ShouldDegradeLate(failures, disabled) ==
  failures > FAILURE_THRESHOLD /\ ~disabled

\* line 405
ShouldDegrade(failures, disabled) ==
  failures >= FAILURE_THRESHOLD /\ ~disabled

\* lines 406-418 up to the await: the flag is set and the NEEDS_HELP update
\* is issued; the loop is left with the results of the turn unpersisted
Degrade(f) ==
  /\ computerToolsDisabled' = Put(computerToolsDisabled, frames[f].task, TRUE)
  /\ restarted' = Note(restarted, frames[f].task, FALSE)
  /\ frames' = [frames EXCEPT ![f] =
                  [Frame("degrade", frames[f].task) EXCEPT
                     !.blocks = Tail(frames[f].blocks)]]

\* history of a computer tool result: a result without error that follows a
\* failure of the task is remembered until the next failure
Recovered(t, isError) ==
  Note(recovered, t,
       /\ ~isError
       /\ Get(computerToolFailures, t) > 0
       /\ ~Flag(computerToolsDisabled, t))

\* a processor that has forgotten the flag of the task
DisabledNever(t) == FALSE

\* line 405: this.computerToolsDisabled[taskId]
Disabled(t) == Flag(computerToolsDisabled, t)

\* handleComputerToolUse returns a result, the failures of a task counted up
\* to cap: lines 398-421
ToolReturnUpTo(f, isError, cap) ==
  /\ frames[f].pc = "tool"
  /\ last' = Quiet
  /\ recovered' = Recovered(frames[f].task, isError)
  /\ LET t == frames[f].task
         failures == Get(computerToolFailures, t) + 1
         fr == [frames[f] EXCEPT !.blocks = Tail(@), !.nres = @ + 1]
     IN  IF isError
         THEN /\ failures <= cap
              /\ computerToolFailures' = Put(computerToolFailures, t, failures)
              /\ IF ShouldDegrade(failures, Disabled(t))
                 THEN Degrade(f)
                 ELSE /\ frames' = [frames EXCEPT ![f] = Settle(Sweep(fr))]
                      /\ UNCHANGED <<computerToolsDisabled, restarted>>
         ELSE /\ frames' = [frames EXCEPT ![f] = Settle(Sweep(fr))]
              /\ UNCHANGED <<computerToolFailures, computerToolsDisabled,
                             restarted>>
  /\ UNCHANGED <<isProcessing, currentTaskId, abortController, retryCounts,
                 stopPending, status>>
  /\ UNCHANGED <<modelVars, storeVars, rejected, inputCapture, completedAt>>

ToolReturn(f, isError) == ToolReturnUpTo(f, isError, MaxFailures)

\* handleComputerToolUse throws: the turn's tool results are never persisted
ToolThrow(f, e) ==
  /\ frames[f].pc = "tool"
  /\ last' = Quiet
  /\ Catch(f, e, TRUE)
  /\ UNCHANGED <<isProcessing, currentTaskId, abortController,
                 computerToolFailures, computerToolsDisabled, stopPending,
                 status, restarted,
                 recovered>>
  /\ UNCHANGED <<modelVars, storeVars, rejected, inputCapture, completedAt>>

\* lines 410-418 after the await
DegradeUpdate(f) ==
  /\ frames[f].pc = "degrade"
  /\ last' = Quiet
  /\ status' = [status EXCEPT ![frames[f].task] = "NEEDS_HELP"]
  /\ isProcessing' = FALSE
  /\ currentTaskId' = NULL
  /\ frames' = [frames EXCEPT ![f] = FreeFrame]
  /\ UNCHANGED <<abortController, retryCounts, computerToolFailures,
                 computerToolsDisabled, stopPending, restarted,
                 recovered>>
  /\ UNCHANGED <<modelVars, storeVars, rejected, inputCapture, completedAt>>

\* tasksService.update of the degradation rejects: the flag stays set and
\* the outer catch takes the error (line 410)
DegradeUpdateThrow(f, e) ==
  /\ frames[f].pc = "degrade"
  /\ Thrown(f, e, TRUE)

\* tasksService.create rejects: line 427
CreateTaskThrow(f, e) ==
  /\ frames[f].pc = "createTask"
  /\ Thrown(f, e, TRUE)

\* tasksService.create returns: lines 427-448
CreateTaskReturn(f) ==
  /\ frames[f].pc = "createTask"
  /\ last' = Quiet
  /\ frames' = [frames EXCEPT ![f] =
                  Settle(Sweep([frames[f] EXCEPT !.blocks = Tail(@),
                                                 !.nres = @ + 1]))]
  /\ UNCHANGED <<isProcessing, currentTaskId, abortController, retryCounts,
                 computerToolFailures, computerToolsDisabled, stopPending,
                 status, restarted,
                 recovered>>
  /\ UNCHANGED <<modelVars, storeVars, rejected, inputCapture, completedAt>>

\* messagesService.create of the tool results returns: lines 468-476
PersistResults(f) ==
  /\ frames[f].pc = "persistResults"
  /\ last' = Quiet
  /\ frames' = [frames EXCEPT ![f] =
                  Settle(AfterResults([frames[f] EXCEPT
                                         !.open = frames[f].nres < frames[f].nuse]))]
  /\ UNCHANGED <<isProcessing, currentTaskId, abortController, retryCounts,
                 computerToolFailures, computerToolsDisabled, stopPending,
                 status, restarted,
                 recovered>>
  /\ UNCHANGED <<modelVars, storeVars, rejected, inputCapture, completedAt>>

\* messagesService.create of the tool results rejects: line 468
PersistResultsThrow(f, e) ==
  /\ frames[f].pc = "persistResults"
  /\ Thrown(f, e, frames[f].nuse > 0)

\* lines 477-489
Transition(sts) == IF sts = "completed" THEN "COMPLETED" ELSE "NEEDS_HELP"

\* tasksService.update of the deferred transition returns: lines 479-497
StatusUpdate(f) ==
  /\ frames[f].pc = "statusUpdate"
  /\ last' = Quiet
  /\ status' = [status EXCEPT ![frames[f].task] = Transition(frames[f].sts)]
  /\ completedAt' = IF frames[f].sts = "completed"
                    THEN Note(completedAt, frames[f].task, TRUE)
                    ELSE completedAt
  /\ frames' = [frames EXCEPT ![f] = ScheduleNext(frames[f])]
  /\ UNCHANGED <<isProcessing, currentTaskId, abortController, retryCounts,
                 computerToolFailures, computerToolsDisabled, stopPending,
                 restarted,
                 recovered>>
  /\ UNCHANGED <<modelVars, storeVars, rejected, inputCapture>>

\* tasksService.update of the deferred transition rejects: lines 479, 485
StatusUpdateThrow(f, e) ==
  /\ frames[f].pc = "statusUpdate"
  /\ Thrown(f, e, frames[f].open)

\* lines 527-544: the status the terminal branch of the outer catch writes
CatchStatus(e) == IF e = "Interrupt" THEN "NEEDS_HELP" ELSE "FAILED"

\* tasksService.update of the outer catch returns: lines 530-547
CatchUpdate(f) ==
  /\ frames[f].pc = "catchUpdate"
  /\ last' = Quiet
  /\ status' = [status EXCEPT ![frames[f].task] = CatchStatus(frames[f].err)]
  /\ retryCounts' = Delete(retryCounts, frames[f].task)
  /\ isProcessing' = FALSE
  /\ currentTaskId' = NULL
  /\ frames' = [frames EXCEPT ![f] = FreeFrame]
  /\ UNCHANGED <<abortController, computerToolFailures, computerToolsDisabled,
                 stopPending, restarted,
                 recovered>>
  /\ UNCHANGED <<modelVars, storeVars, rejected, inputCapture, completedAt>>

\* tasksService.update of the outer catch throws: runIteration rejects
CatchUpdateThrow(f) ==
  /\ frames[f].pc = "catchUpdate"
  /\ last' = <<"UpdateThrew", frames[f].task>>
  /\ frames' = [frames EXCEPT ![f] = FreeFrame]
  /\ UNCHANGED <<isProcessing, currentTaskId, abortController, retryCounts,
                 computerToolFailures, computerToolsDisabled, stopPending,
                 status, restarted,
                 recovered>>
  /\ UNCHANGED <<modelVars, storeVars, rejected, inputCapture, completedAt>>

Next ==
  \/ \E t \in Submitted : Submit(t)
  \/ \E t \in Tasks : HandleTaskTakeover(t)
  \/ \E t \in Tasks : HandleTaskResume(t)
  \/ \E t \in Tasks : HandleTaskCancel(t)
  \/ StopProcessing
  \/ StopFinish
  \/ \E t \in Submitted, s \in TaskStatus : ExternalUpdate(t, s)
  \/ \E f \in FrameIds : RunImmediate(f)
  \/ \E f \in FrameIds : RunTimer(f)
  \/ \E f \in FrameIds : FetchReturn(f)
  \/ \E f \in FrameIds, e \in ErrKinds : FetchThrow(f, e)
  \/ \E f \in FrameIds : AssembleReturn(f)
  \/ \E f \in FrameIds, empty \in BOOLEAN : LlmReturn(f, empty)
  \/ \E f \in FrameIds, e \in ErrKinds : LlmThrow(f, e)
  \/ \E f \in FrameIds : FailUpdate(f)
  \/ \E f \in FrameIds, resp \in Responses : PersistAssistant(f, resp)
  \/ \E f \in FrameIds, isError \in BOOLEAN : ToolReturn(f, isError)
  \/ \E f \in FrameIds, e \in ErrKinds : ToolThrow(f, e)
  \/ \E f \in FrameIds : DegradeUpdate(f)
  \/ \E f \in FrameIds : CreateTaskReturn(f)
  \/ \E f \in FrameIds : PersistResults(f)
  \/ \E f \in FrameIds : StatusUpdate(f)
  \/ \E f \in FrameIds : CatchUpdate(f)
  \/ \E f \in FrameIds : CatchUpdateThrow(f)
  \/ \E f \in FrameIds, e \in ErrKinds : AssembleThrow(f, e)
  \/ \E f \in FrameIds, e \in ErrKinds : FailUpdateThrow(f, e)
  \/ \E f \in FrameIds, e \in ErrKinds : PersistAssistantThrow(f, e)
  \/ \E f \in FrameIds, e \in ErrKinds : DegradeUpdateThrow(f, e)
  \/ \E f \in FrameIds, e \in ErrKinds : CreateTaskThrow(f, e)
  \/ \E f \in FrameIds, e \in ErrKinds : PersistResultsThrow(f, e)
  \/ \E f \in FrameIds, e \in ErrKinds : StatusUpdateThrow(f, e)
  \/ StopThrow

Spec == Init /\ [][Next]_vars

\* ---- processTask against a processor at work -----------------------------
\* The processor with the iterations processTask starts, task.takeover and
\* the task service's writes, every processTask call noted.
BusyNext ==
  \/ \E t \in Submitted : SubmitNoted(t)
  \/ \E t \in Tasks : HandleTaskTakeover(t)
  \/ \E t \in Submitted, s \in TaskStatus : ExternalUpdate(t, s)
  \/ \E f \in FrameIds : RunImmediate(f)
  \/ \E f \in FrameIds : RunTimer(f)
  \/ \E f \in FrameIds : FetchReturn(f)
  \/ \E f \in FrameIds, e \in ErrKinds : FetchThrow(f, e)
  \/ \E f \in FrameIds : AssembleReturn(f)
  \/ \E f \in FrameIds, empty \in BOOLEAN : LlmReturn(f, empty)
  \/ \E f \in FrameIds, e \in ErrKinds : LlmThrow(f, e)
  \/ \E f \in FrameIds : FailUpdate(f)
  \/ \E f \in FrameIds, resp \in Responses : PersistAssistant(f, resp)
  \/ \E f \in FrameIds, isError \in BOOLEAN : ToolReturn(f, isError)
  \/ \E f \in FrameIds, e \in ErrKinds : ToolThrow(f, e)
  \/ \E f \in FrameIds : DegradeUpdate(f)
  \/ \E f \in FrameIds : CreateTaskReturn(f)
  \/ \E f \in FrameIds : PersistResults(f)
  \/ \E f \in FrameIds : StatusUpdate(f)
  \/ \E f \in FrameIds : CatchUpdate(f)
  \/ \E f \in FrameIds : CatchUpdateThrow(f)
  \/ \E f \in FrameIds, e \in ErrKinds : AssembleThrow(f, e)
  \/ \E f \in FrameIds, e \in ErrKinds : FailUpdateThrow(f, e)
  \/ \E f \in FrameIds, e \in ErrKinds : PersistAssistantThrow(f, e)
  \/ \E f \in FrameIds, e \in ErrKinds : DegradeUpdateThrow(f, e)
  \/ \E f \in FrameIds, e \in ErrKinds : CreateTaskThrow(f, e)
  \/ \E f \in FrameIds, e \in ErrKinds : PersistResultsThrow(f, e)
  \/ \E f \in FrameIds, e \in ErrKinds : StatusUpdateThrow(f, e)

\* the processor with the histories of restarts and recoveries and the
\* completedAt of the rows kept
ObservedInit ==
  /\ ProcIdle
  /\ restarted = [t \in Tasks |-> FALSE]
  /\ recovered = [t \in Tasks |-> FALSE]
  /\ completedAt = [t \in Tasks |-> FALSE]
  /\ ModelIdle
  /\ UsageIdle
  /\ StoreIdle

BusySpec == ObservedInit /\ [][BusyNext]_vars

\* ---- turns at or above the summarization threshold ------------------------
\* The processor with its summarization, driven by processTask, task.takeover
\* and the task service.
SummarizeNext ==
  \/ \E t \in Submitted : Submit(t)
  \/ \E t \in Tasks : HandleTaskTakeover(t)
  \/ \E t \in Submitted, s \in TaskStatus : ExternalUpdate(t, s)
  \/ \E f \in FrameIds : RunImmediate(f)
  \/ \E f \in FrameIds : RunTimer(f)
  \/ \E f \in FrameIds : FetchReturn(f)
  \/ \E f \in FrameIds, e \in ErrKinds : FetchThrow(f, e)
  \/ \E f \in FrameIds : AssembleReturn(f)
  \/ \E f \in FrameIds, empty \in BOOLEAN : LlmReturn(f, empty)
  \/ \E f \in FrameIds, e \in ErrKinds : LlmThrow(f, e)
  \/ \E f \in FrameIds : FailUpdate(f)
  \/ \E f \in FrameIds, resp \in Responses, summarizing \in BOOLEAN :
       PersistAssistantThen(f, resp, summarizing)
  \/ \E f \in FrameIds : SummarizeReturn(f)
  \/ \E f \in FrameIds : SummarizeCreate(f)
  \/ \E f \in FrameIds : SummarizeAttach(f)
  \/ \E f \in FrameIds, e \in ErrKinds : SummarizeThrow(f, e)
  \/ \E f \in FrameIds, isError \in BOOLEAN : ToolReturn(f, isError)
  \/ \E f \in FrameIds, e \in ErrKinds : ToolThrow(f, e)
  \/ \E f \in FrameIds : DegradeUpdate(f)
  \/ \E f \in FrameIds : CreateTaskReturn(f)
  \/ \E f \in FrameIds : PersistResults(f)
  \/ \E f \in FrameIds : StatusUpdate(f)
  \/ \E f \in FrameIds : CatchUpdate(f)
  \/ \E f \in FrameIds : CatchUpdateThrow(f)
  \/ \E f \in FrameIds, e \in ErrKinds : AssembleThrow(f, e)
  \/ \E f \in FrameIds, e \in ErrKinds : FailUpdateThrow(f, e)
  \/ \E f \in FrameIds, e \in ErrKinds : PersistAssistantThrow(f, e)
  \/ \E f \in FrameIds, e \in ErrKinds : DegradeUpdateThrow(f, e)
  \/ \E f \in FrameIds, e \in ErrKinds : CreateTaskThrow(f, e)
  \/ \E f \in FrameIds, e \in ErrKinds : PersistResultsThrow(f, e)
  \/ \E f \in FrameIds, e \in ErrKinds : StatusUpdateThrow(f, e)

SummarizeSpec == Init /\ [][SummarizeNext]_vars

\* ---- one task handed over to another --------------------------------------
\* processTask for either task, task.cancel and the iteration as far as its
\* provider call, which fails or returns nothing; every await on the way
\* returns or rejects.
HandoverNext ==
  \/ \E t \in Tasks : Submit(t)
  \/ \E t \in Tasks : HandleTaskCancel(t)
  \/ StopFinish
  \/ \E f \in FrameIds : FetchReturn(f)
  \/ \E f \in FrameIds : AssembleReturn(f)
  \/ \E f \in FrameIds : LlmReturn(f, TRUE)
  \/ \E f \in FrameIds, e \in ErrKinds : LlmThrow(f, e)
  \/ \E f \in FrameIds : FailUpdate(f)
  \/ StopThrow
  \/ \E f \in FrameIds, e \in ErrKinds : FailUpdateThrow(f, e)
  \/ \E f \in FrameIds, e \in ErrKinds : FetchThrow(f, e)
  \/ \E f \in FrameIds, e \in ErrKinds : AssembleThrow(f, e)
  \/ \E f \in FrameIds : CatchUpdate(f)
  \/ \E f \in FrameIds : CatchUpdateThrow(f)
  \/ \E f \in FrameIds : RunTimer(f)

HandoverSpec == Init /\ [][HandoverNext]_vars

\* ---- a task run again after its degradation -------------------------------
\* The processor driven by processTask, task.takeover and the task service,
\* with room for a failure of the computer tool after the flag is set.
MaxLateFailures == MaxFailures + 1

DegradedNext ==
  \/ \E t \in Submitted : Submit(t)
  \/ \E t \in Tasks : HandleTaskTakeover(t)
  \/ \E t \in Submitted, s \in TaskStatus : ExternalUpdate(t, s)
  \/ \E f \in FrameIds : RunImmediate(f)
  \/ \E f \in FrameIds : RunTimer(f)
  \/ \E f \in FrameIds : FetchReturn(f)
  \/ \E f \in FrameIds, e \in ErrKinds : FetchThrow(f, e)
  \/ \E f \in FrameIds : AssembleReturn(f)
  \/ \E f \in FrameIds, empty \in BOOLEAN : LlmReturn(f, empty)
  \/ \E f \in FrameIds, e \in ErrKinds : LlmThrow(f, e)
  \/ \E f \in FrameIds : FailUpdate(f)
  \/ \E f \in FrameIds, resp \in Responses : PersistAssistant(f, resp)
  \/ \E f \in FrameIds, isError \in BOOLEAN :
       ToolReturnUpTo(f, isError, MaxLateFailures)
  \/ \E f \in FrameIds, e \in ErrKinds : ToolThrow(f, e)
  \/ \E f \in FrameIds : DegradeUpdate(f)
  \/ \E f \in FrameIds : CreateTaskReturn(f)
  \/ \E f \in FrameIds : PersistResults(f)
  \/ \E f \in FrameIds : StatusUpdate(f)
  \/ \E f \in FrameIds : CatchUpdate(f)
  \/ \E f \in FrameIds : CatchUpdateThrow(f)
  \/ \E f \in FrameIds, e \in ErrKinds : AssembleThrow(f, e)
  \/ \E f \in FrameIds, e \in ErrKinds : FailUpdateThrow(f, e)
  \/ \E f \in FrameIds, e \in ErrKinds : PersistAssistantThrow(f, e)
  \/ \E f \in FrameIds, e \in ErrKinds : DegradeUpdateThrow(f, e)
  \/ \E f \in FrameIds, e \in ErrKinds : CreateTaskThrow(f, e)
  \/ \E f \in FrameIds, e \in ErrKinds : PersistResultsThrow(f, e)
  \/ \E f \in FrameIds, e \in ErrKinds : StatusUpdateThrow(f, e)

DegradedSpec == Init /\ [][DegradedNext]_vars

\* ---- the undisturbed run ------------------------------------------------
\* processTask and the iterations it starts, every await returning and no
\* lifecycle event or outside write arriving
Advance(f) ==
  \/ RunImmediate(f)
  \/ FetchReturn(f)
  \/ AssembleReturn(f)
  \/ \E empty \in BOOLEAN : LlmReturn(f, empty)
  \/ FailUpdate(f)
  \/ \E resp \in Responses : PersistAssistant(f, resp)
  \/ \E isError \in BOOLEAN : ToolReturn(f, isError)
  \/ DegradeUpdate(f)
  \/ CreateTaskReturn(f)
  \/ PersistResults(f)
  \/ StatusUpdate(f)

HappyNext ==
  \/ \E t \in Submitted : Submit(t)
  \/ \E f \in FrameIds : Advance(f)

\* every pending await returns and every queued callback runs
HappySpec ==
  ObservedInit /\ [][HappyNext]_vars /\ \A f \in FrameIds : WF_vars(Advance(f))

\* ---- a task resumed while it is being processed ---------------------------
\* processTask, task.resume and every step of the iterations, their awaits
\* returning or rejecting, with the histories kept.
ResumedNext ==
  \/ \E t \in Submitted : Submit(t)
  \/ \E t \in Tasks : HandleTaskResume(t)
  \/ \E f \in FrameIds : RunImmediate(f)
  \/ \E f \in FrameIds : RunTimer(f)
  \/ \E f \in FrameIds : FetchReturn(f)
  \/ \E f \in FrameIds, e \in ErrKinds : FetchThrow(f, e)
  \/ \E f \in FrameIds : AssembleReturn(f)
  \/ \E f \in FrameIds, empty \in BOOLEAN : LlmReturn(f, empty)
  \/ \E f \in FrameIds, e \in ErrKinds : LlmThrow(f, e)
  \/ \E f \in FrameIds : FailUpdate(f)
  \/ \E f \in FrameIds, resp \in Responses : PersistAssistant(f, resp)
  \/ \E f \in FrameIds, isError \in BOOLEAN : ToolReturn(f, isError)
  \/ \E f \in FrameIds, e \in ErrKinds : ToolThrow(f, e)
  \/ \E f \in FrameIds : DegradeUpdate(f)
  \/ \E f \in FrameIds : CreateTaskReturn(f)
  \/ \E f \in FrameIds : PersistResults(f)
  \/ \E f \in FrameIds : StatusUpdate(f)
  \/ \E f \in FrameIds : CatchUpdate(f)
  \/ \E f \in FrameIds : CatchUpdateThrow(f)
  \/ \E f \in FrameIds, e \in ErrKinds : AssembleThrow(f, e)
  \/ \E f \in FrameIds, e \in ErrKinds : FailUpdateThrow(f, e)
  \/ \E f \in FrameIds, e \in ErrKinds : PersistAssistantThrow(f, e)
  \/ \E f \in FrameIds, e \in ErrKinds : DegradeUpdateThrow(f, e)
  \/ \E f \in FrameIds, e \in ErrKinds : CreateTaskThrow(f, e)
  \/ \E f \in FrameIds, e \in ErrKinds : PersistResultsThrow(f, e)
  \/ \E f \in FrameIds, e \in ErrKinds : StatusUpdateThrow(f, e)

ResumedSpec == ObservedInit /\ [][ResumedNext]_vars

\* ---- the resolver on every persisted model value -------------------------
ResolveInit ==
  /\ ProcInit
  /\ rawModel \in RawModels
  /\ model = << >>
  /\ UsageIdle
  /\ StoreIdle

ResolveModel ==
  /\ model = << >>
  /\ model' = <<CoerceModel(rawModel)>>
  /\ UNCHANGED <<procVars, rawModel, usageVars, storeVars>>

ResolveNext == ResolveModel

ResolveSpec == ResolveInit /\ [][ResolveNext]_vars

\* ---- the summarization threshold -----------------------------------------
\* lines 318-322 on the token usage of a turn and the context window of the
\* resolved descriptor, both whole numbers.
NearThreshold ==
  LET t == (3 * DEFAULT_CONTEXT_WINDOW) \div 4 IN {t - 1, t, t + 1}
TokenCounts == 0..MaxTokens \cup NearThreshold
ContextWindows ==
  {<< >>} \cup {<<n>> : n \in 0..MaxTokens \cup {DEFAULT_CONTEXT_WINDOW}}

\* line 319: model.contextWindow || 200000, undefined and 0 are falsy
ContextWindowOrDefault(cw) ==
  IF cw = << >> \/ cw[1] = 0 THEN DEFAULT_CONTEXT_WINDOW ELSE cw[1]

\* lines 320-322: totalTokens >= contextWindow * 0.75, exact on whole numbers
ShouldSummarize(tokens, cw) == 4 * tokens >= 3 * ContextWindowOrDefault(cw)

ThresholdInit ==
  /\ ProcInit
  /\ ModelIdle
  /\ StoreIdle
  /\ totalTokens \in TokenCounts
  /\ contextWindow \in ContextWindows
  /\ shouldSummarize = << >>

Threshold ==
  /\ shouldSummarize = << >>
  /\ shouldSummarize' = <<ShouldSummarize(totalTokens, contextWindow)>>
  /\ UNCHANGED <<procVars, rawModel, model, totalTokens, contextWindow,
                 storeVars>>

ThresholdNext == Threshold

ThresholdSpec == ThresholdInit /\ [][ThresholdNext]_vars

\* ---- the message store and the summarization ----------------------------
\* An iteration as far as it reads and writes the message store: lines
\* 163-205 and 312-386, 467-473.  A message id is its index in `messages`;
\* 0 is the id '' of the messages the iteration makes up (the latest summary,
\* the advisory notice).
PassIds == 1..MaxPasses

\* messagesService.findUnsummarized: the messages whose summaryId is null
Unsummarized == {i \in 1..Len(messages) : messages[i] = 0}

\* lines 166-205: the message list of the iteration
Assemble(made) == (IF made THEN {0} ELSE {}) \cup Unsummarized

\* the ids short of the newest message
SummaryIdsButLast(ctx) == {m \in ctx : \E n \in ctx : n > m}

\* lines 369-373: messages.map((message) => message.id)
SummaryIds(ctx) == ctx

\* messagesService.attachSummary(taskId, summaryId, ids)
Attached(sid, ids) ==
  [i \in 1..Len(messages) |-> IF i \in ids THEN sid ELSE messages[i]]

\* processTask, task.resume: an iteration is started
StartPass(p) ==
  /\ passes[p].pc = "off"
  /\ passes' = [passes EXCEPT ![p].pc = "find"]
  /\ UNCHANGED <<messages, summaries, covered, procVars, modelVars>>

\* a message of the user is persisted by the task service
UserMessage ==
  /\ Len(messages) < MaxMessages
  /\ messages' = Append(messages, 0)
  /\ UNCHANGED <<summaries, passes, covered, procVars, modelVars>>

\* summariesService.findLatest returns: line 163
FindLatest(p) ==
  /\ passes[p].pc = "find"
  /\ passes' = [passes EXCEPT ![p].pc = "findUnsummarized",
                              ![p].latest = summaries > 0]
  /\ UNCHANGED <<messages, summaries, covered, procVars, modelVars>>

\* messagesService.findUnsummarized returns and the list is assembled from
\* it and from the summary found before: lines 164-205
FindUnsummarized(p, advisory) ==
  /\ passes[p].pc = "findUnsummarized"
  /\ passes' = [passes EXCEPT ![p].pc = "llm", ![p].latest = FALSE,
                              ![p].ctx = Assemble(passes[p].latest \/ advisory)]
  /\ UNCHANGED <<messages, summaries, covered, procVars, modelVars>>

\* generateMessage returns and the assistant message is persisted; the token
\* usage decides whether to summarize: lines 270-324
CreateAssistant(p, summarizing) ==
  /\ passes[p].pc = "llm"
  /\ Len(messages) < MaxMessages
  /\ messages' = Append(messages, 0)
  /\ passes' = [passes EXCEPT
                  ![p].pc = IF summarizing THEN "summarize" ELSE "results"]
  /\ UNCHANGED <<summaries, covered, procVars, modelVars>>

\* the summarization call returns: lines 327-362
SummaryReturn(p) ==
  /\ passes[p].pc = "summarize"
  /\ passes' = [passes EXCEPT ![p].pc = "create"]
  /\ UNCHANGED <<messages, summaries, covered, procVars, modelVars>>

\* summariesService.create returns: lines 364-367
CreateSummary(p) ==
  /\ passes[p].pc = "create"
  /\ summaries < MaxSummaries
  /\ summaries' = summaries + 1
  /\ passes' = [passes EXCEPT ![p].pc = "attach", ![p].sid = summaries + 1]
  /\ UNCHANGED <<messages, covered, procVars, modelVars>>

\* attachSummary returns: lines 369-377
AttachSummary(p) ==
  /\ passes[p].pc = "attach"
  /\ messages' = Attached(passes[p].sid, SummaryIds(passes[p].ctx))
  /\ covered' = covered \cup (passes[p].ctx \ {0})
  /\ passes' = [passes EXCEPT ![p].pc = "results", ![p].sid = 0]
  /\ UNCHANGED <<summaries, procVars, modelVars>>

\* an await of the summarization throws; the error is logged: lines 378-385
SummaryThrow(p) ==
  /\ passes[p].pc \in {"summarize", "create", "attach"}
  /\ passes' = [passes EXCEPT ![p].pc = "results", ![p].sid = 0]
  /\ UNCHANGED <<messages, summaries, covered, procVars, modelVars>>

\* an await outside the summarization rejects and the iteration ends in a
\* catch that touches no message: lines 278-290, 498-548
PassThrow(p) ==
  /\ passes[p].pc \in {"find", "findUnsummarized", "llm", "results"}
  /\ passes' = [passes EXCEPT ![p] = NoPass]
  /\ UNCHANGED <<messages, summaries, covered, procVars, modelVars>>

\* the tool results of the turn are persisted, if any, and the iteration
\* ends; the next one is a pass again: lines 467-497
CreateResults(p, any) ==
  /\ passes[p].pc = "results"
  /\ any => Len(messages) < MaxMessages
  /\ messages' = IF any THEN Append(messages, 0) ELSE messages
  /\ passes' = [passes EXCEPT ![p] = NoPass]
  /\ UNCHANGED <<summaries, covered, procVars, modelVars>>

StoreNext ==
  \/ \E p \in PassIds : StartPass(p)
  \/ UserMessage
  \/ \E p \in PassIds : FindLatest(p)
  \/ \E p \in PassIds, advisory \in BOOLEAN : FindUnsummarized(p, advisory)
  \/ \E p \in PassIds, summarizing \in BOOLEAN :
       CreateAssistant(p, summarizing)
  \/ \E p \in PassIds : SummaryReturn(p)
  \/ \E p \in PassIds : CreateSummary(p)
  \/ \E p \in PassIds : AttachSummary(p)
  \/ \E p \in PassIds : SummaryThrow(p)
  \/ \E p \in PassIds : PassThrow(p)
  \/ \E p \in PassIds, any \in BOOLEAN : CreateResults(p, any)

StoreSpec == Init /\ [][StoreNext]_vars

\* ---- the claims ----------------------------------------------------------
TaskOf(f) == frames[f].task

\* C1: in every reachable state, isProcessing is true exactly when
\* currentTaskId is non-null.
C1_ProcessingIffCurrentTask == isProcessing <=> currentTaskId # NULL

\* C1 witness: stopProcessing has cleared both fields while an iteration of
\* the stopped task is still in flight.
C1_Witness ==
  /\ ~isProcessing
  /\ currentTaskId = NULL
  /\ \E f \in FrameIds : InFlight(f) /\ frames[f].pc = "llm"

\* C2: there are never two runIteration invocations in flight at once.
C2_AtMostOneIteration == Cardinality({f \in FrameIds : InFlight(f)}) <= 1

\* C3: an Interrupt raised by the generateMessage call of an iteration does
\* not take the task to FAILED: no iteration awaits the FAILED update of the
\* provider-error handler with an Interrupt as the error it caught.
C3_InterruptIsNotFailure ==
  \A f \in FrameIds : frames[f].pc = "llmFail" => frames[f].err # "Interrupt"

\* C4: once the handler of a task.cancel delivered during an iteration's
\* generateMessage call has cleared the processing state, that iteration
\* writes no task status and schedules nothing: the Interrupt its provider
\* call surfaces does not leave it awaiting a task update.
C4_CancelledIterationWritesNothing ==
  \A f \in FrameIds :
    ~(frames[f].cx = 0 /\ frames[f].pc = "llmFail" /\ frames[f].err = "Interrupt")

\* findById returned to f in this step (it did not throw)
Fetched(f) ==
  /\ frames[f].pc = "fetch"
  /\ frames'[f].pc \notin {"fetch", "timer", "catchUpdate"}

\* C5: an iteration that observes a task status other than RUNNING at its
\* start returns at once: it calls no provider, persists no message and
\* writes no task update, and leaves isProcessing false and currentTaskId null.
C5_NotRunningStops ==
  [][\A f \in FrameIds :
       (Fetched(f) /\ status[TaskOf(f)] # "RUNNING")
         => /\ frames'[f] = FreeFrame
            /\ status' = status
            /\ ~isProcessing'
            /\ currentTaskId' = NULL]_vars

\* C5 witness: an iteration has just observed a task that is not RUNNING.
C5_Witness ==
  /\ last = <<"NotRunning", "t1">>
  /\ status["t1"] # "RUNNING"
  /\ ~isProcessing

\* C6: once computerToolsDisabled[task] is set, no iteration that begins
\* afterwards invokes the desktop tool handler for a computer_* block of the
\* task, unless processTask has started the task again.
C6_NoDispatchOnceDisabled ==
  \A f \in FrameIds :
    ~(frames[f].pc = "tool" /\ frames[f].late /\ ~restarted[TaskOf(f)])

\* f schedules an interrupt retry in this step
Retries(f) == frames[f].pc # "timer" /\ frames'[f].pc = "timer"

\* C7: retryCounts[task] never exceeds MAX_INTERRUPT_RETRIES, and every retry
\* that is scheduled counts one up within that budget and leaves isProcessing
\* and currentTaskId as they are.
C7_RetriesBounded ==
  /\ [](\A t \in DOMAIN retryCounts : retryCounts[t] <= MAX_INTERRUPT_RETRIES)
  /\ [][\A f \in FrameIds :
          Retries(f)
            => /\ Get(retryCounts, TaskOf(f)) < MAX_INTERRUPT_RETRIES
               /\ retryCounts'[TaskOf(f)] = Get(retryCounts, TaskOf(f)) + 1
               /\ isProcessing' = isProcessing
               /\ currentTaskId' = currentTaskId]_vars

\* C7 witness: the third retry of a task is scheduled and the processor still
\* holds the task.
C7_Witness ==
  \E f \in FrameIds :
    /\ frames[f].pc = "timer"
    /\ Get(retryCounts, TaskOf(f)) = MAX_INTERRUPT_RETRIES
    /\ isProcessing
    /\ currentTaskId = TaskOf(f)

\* the iteration of f ends in this step on an error it caught, its task
\* update having been written
EndsOnError(f) ==
  /\ frames[f].pc \in {"llmFail", "catchUpdate"}
  /\ frames'[f].pc = "free"
  /\ last'[1] # "UpdateThrew"

\* C8: an iteration that ends on an Interrupt with the retry budget used up
\* leaves the task NEEDS_HELP, and one that ends on any other exception
\* leaves it FAILED; both delete retryCounts[task] and clear isProcessing and
\* currentTaskId.
C8_TerminalCleanUp ==
  [][\A f \in FrameIds :
       (EndsOnError(f) /\
        (frames[f].err = "Interrupt"
           => Get(retryCounts, TaskOf(f)) >= MAX_INTERRUPT_RETRIES))
         => /\ status'[TaskOf(f)] =
                 (IF frames[f].err = "Interrupt" THEN "NEEDS_HELP" ELSE "FAILED")
            /\ TaskOf(f) \notin DOMAIN retryCounts'
            /\ ~isProcessing'
            /\ currentTaskId' = NULL]_vars

\* an iteration of f's task begins in this step
Begins(f) == frames[f].pc # "fetch" /\ frames'[f].pc = "fetch"

\* g holds an assistant message with ToolUse blocks it has persisted and whose
\* tool results it has not
AwaitsResults(g) ==
  frames[g].pc \in {"tool", "createTask", "persistResults"} /\ frames[g].nuse > 0

\* C9: when an iteration of a task begins, every persisted assistant message
\* with ToolUse blocks has its USER message with a ToolResult for each of
\* them, or the task is in a terminal or NEEDS_HELP status.
C9_ToolResultsBeforeNextIteration ==
  [][\A f \in FrameIds :
       Begins(f)
         => \/ status[frames'[f].task] \in Settled
            \/ /\ ~frames[f].open
               /\ \A g \in FrameIds \ {f} :
                    frames[g].task = frames'[f].task => ~AwaitsResults(g)]_vars

\* a computer_* result with is_error takes the failure counter of f's task to
\* the threshold in this step, degradation not being active
ReachesThreshold(f) ==
  /\ frames[f].pc = "tool"
  /\ frames'[f] # frames[f]
  /\ ~Flag(computerToolsDisabled, TaskOf(f))
  /\ Get(computerToolFailures, TaskOf(f)) = FAILURE_THRESHOLD - 1
  /\ Get(computerToolFailures', TaskOf(f)) = FAILURE_THRESHOLD

\* the await that iteration f is suspended at rejects in this step and the
\* outer catch takes the error
Rejects(f) ==
  /\ frames[f].pc \notin {"timer", "catchUpdate"}
  /\ frames'[f].pc \in {"timer", "catchUpdate"}

\* C10: the computer_* failure that takes the counter to 2 while degradation
\* is not active sets computerToolsDisabled[task] and leaves the block loop
\* for the NEEDS_HELP update, no further block visited; when that update
\* returns the task is NEEDS_HELP, the processing state is cleared and no
\* iteration is scheduled; when it rejects, the error goes to the outer
\* catch with the flag set, no block visited and no status written by the
\* rejection.
C10_DegradeAtThreshold ==
  [][\A f \in FrameIds :
       /\ ReachesThreshold(f)
            => /\ Flag(computerToolsDisabled', TaskOf(f))
               /\ frames'[f] = [Frame("degrade", TaskOf(f)) EXCEPT
                                   !.blocks = Tail(frames[f].blocks)]
               /\ status' = status
       /\ (frames[f].pc = "degrade" /\ frames'[f] # frames[f])
            => \/ /\ status'[TaskOf(f)] = "NEEDS_HELP"
                  /\ frames'[f] = FreeFrame
                  /\ ~isProcessing'
                  /\ currentTaskId' = NULL
               \/ /\ Rejects(f)
                  /\ Flag(computerToolsDisabled', TaskOf(f))
                  /\ status' = status]_vars

\* C10 witness: the second failure has set the flag with a block of the turn
\* still unvisited, and the iteration awaits the NEEDS_HELP update.
C10_Witness ==
  \E f \in FrameIds :
    /\ frames[f].pc = "degrade"
    /\ frames[f].blocks # << >>
    /\ Flag(computerToolsDisabled, TaskOf(f))
    /\ Get(computerToolFailures, TaskOf(f)) = FAILURE_THRESHOLD

\* the failure of f's task that sets computerToolsDisabled happens in this step
Degrades(f) == frames[f].pc = "tool" /\ frames'[f].pc = "degrade"

\* C11: degradation is triggered only by consecutive failures: at the failure
\* that sets computerToolsDisabled[task], no computer tool result without
\* error has come since the task's previous failure.
C11_ConsecutiveFailures ==
  [][\A f \in FrameIds : Degrades(f) => ~recovered[TaskOf(f)]]_vars

\* C12: isProcessing, currentTaskId # null and abortController # null are
\* equivalent in every reachable state: a cancellation handle exists exactly
\* while the processor is processing.
C12_HandleIffProcessing ==
  /\ isProcessing <=> currentTaskId # NULL
  /\ isProcessing <=> abortController # "null"

\* the provider tags a descriptor may carry
KnownProviders == {<<"anthropic">>, <<"openai">>, <<"google">>, <<"proxy">>}

\* C14: the descriptor resolved from any persisted model value carries one of
\* the providers anthropic, openai, google, proxy.
C14_ResolverClosed ==
  model # << >> => model[1].provider \in KnownProviders

\* p assembles its message list in this step
Assembles(p) == passes[p].pc = "findUnsummarized" /\ passes'[p].pc = "llm"

\* C13: every persisted message that was in the list passed to a
\* summarization that succeeded carries a summaryId, and no message list
\* assembled afterwards holds any of them.
C13_SummarizedNotResent ==
  /\ [](\A m \in covered : messages[m] # 0)
  /\ [][\A p \in PassIds :
          Assembles(p) => passes'[p].ctx \cap covered = {}]_vars

\* C13 witness: after a summarization succeeded an iteration has assembled a
\* list of the summary and a message persisted since.
C13_Witness ==
  \E p \in PassIds :
    /\ passes[p].pc = "llm"
    /\ covered # {}
    /\ 0 \in passes[p].ctx
    /\ passes[p].ctx \ {0} # {}
    /\ passes[p].ctx \cap covered = {}

\* C15: processTask called while isProcessing is true changes nothing:
\* isProcessing, currentTaskId and the cancellation handle stay as they are,
\* no iteration is started and no callback is queued.
C15_ProcessTaskWhileBusy ==
  [][\A t \in Submitted :
       (isProcessing /\ ProcessTask(t))
         => UNCHANGED <<isProcessing, currentTaskId, abortController, frames,
                        stopPending, retryCounts, status>>]_vars

\* C15 witness: processTask has just returned from a processor that was busy
\* with an iteration in flight.
C15_Witness ==
  /\ rejected
  /\ isProcessing
  /\ currentTaskId = "t1"
  /\ \E f \in FrameIds : frames[f].pc = "llm"

\* C16: task.takeover fires the cancellation only when its taskId is the
\* current task and isProcessing is true, starts input capture in every case,
\* and leaves isProcessing and currentTaskId as they are; isProcessing is
\* cleared only by stopProcessing (task.cancel) after its await and by an
\* iteration that returns.
C16_TakeoverKeepsState ==
  [][/\ \A t \in Tasks :
          HandleTaskTakeover(t)
            => /\ inputCapture'
               /\ isProcessing' = isProcessing
               /\ currentTaskId' = currentTaskId
               /\ (currentTaskId = t /\ isProcessing)
                    => abortController' = "aborted"
               /\ ~(currentTaskId = t /\ isProcessing)
                    => UNCHANGED <<abortController, frames>>
     /\ (isProcessing /\ ~isProcessing')
          => \/ stopPending' < stopPending
             \/ \E f \in FrameIds : InFlight(f) /\ frames'[f].pc = "free"]_vars

\* C16 witness: a takeover of the current task has aborted the provider call
\* in flight and started input capture, and the processor still holds the
\* task.
C16_Witness ==
  /\ inputCapture
  /\ isProcessing
  /\ currentTaskId = "t1"
  /\ abortController = "aborted"
  /\ stopPending = 0
  /\ \E f \in FrameIds : frames[f].pc = "llm" /\ frames[f].sig = "aborted"

\* the processor has stopped: nothing is in flight or queued
Idle ==
  /\ ~isProcessing
  /\ stopPending = 0
  /\ \A f \in FrameIds : frames[f].pc = "free"

\* C17: once processing has stopped, no task has an entry left in
\* retryCounts, computerToolFailures or computerToolsDisabled.
C17_EphemeralStateDeleted ==
  Idle => /\ DOMAIN retryCounts = {}
          /\ DOMAIN computerToolFailures = {}
          /\ DOMAIN computerToolsDisabled = {}

\* the block loop of f has run to its end with 'completed' the status of the
\* last set_task_status block visited, and its tool results are being persisted
Completing(f) ==
  frames[f].pc = "persistResults" /\ frames[f].sts = "completed"

\* C18: when the block loop of an undisturbed iteration has run to its end
\* and the last set_task_status block of the response asked for 'completed',
\* the tool results are persisted before the status is written, the task
\* becomes COMPLETED with its completedAt set and the processor idle, and no
\* provider call is made for a task that is COMPLETED.
C18_HappyPathCompletion ==
  /\ \A f \in FrameIds, t \in Submitted :
       (Completing(f) /\ TaskOf(f) = t)
         ~> (Idle /\ status[t] = "COMPLETED" /\ completedAt[t])
  /\ [][\A f \in FrameIds :
          (frames[f].pc = "statusUpdate" /\ frames'[f] # frames[f])
            => /\ frames[f].nres > 0
               /\ frames[f].sts = "completed"
                    => /\ status'[TaskOf(f)] = "COMPLETED"
                       /\ completedAt'[TaskOf(f)]]_vars
  /\ [](\A f \in FrameIds :
          frames[f].pc \in {"llm", "persistAssistant"}
            => status[TaskOf(f)] # "COMPLETED")

\* C18 as stated: whenever the response of an undisturbed iteration contains
\* a set_task_status block with status 'completed', whatever else it holds,
\* the task becomes COMPLETED with its completedAt set and the processor idle.
C18_AnyCompletedBlock ==
  \A f \in FrameIds, t \in Submitted :
    (frames[f].asked /\ TaskOf(f) = t)
      ~> (Idle /\ status[t] = "COMPLETED" /\ completedAt[t])

\* C18 witness: the iteration after the COMPLETED write has seen the status
\* and wound the processor down.
C18_Witness ==
  /\ Idle
  /\ status["t1"] = "COMPLETED"
  /\ completedAt["t1"]
  /\ last = <<"NotRunning", "t1">>

\* C19: within a turn the status requested by set_task_status is written
\* only after the USER message with the tool results of the turn has been
\* persisted, no status is written while the blocks are visited, and the
\* turn ends with that one write, or with none when the write rejects.
C19_StatusAfterResults ==
  [][\A f \in FrameIds :
       /\ (frames[f].pc # "statusUpdate" /\ frames'[f].pc = "statusUpdate")
            => frames[f].pc = "persistResults" /\ frames[f].nres > 0
       /\ (/\ frames[f].pc \in {"persistAssistant", "tool", "createTask",
                                 "persistResults"}
           /\ frames'[f] # frames[f])
            => status' = status
       /\ (frames[f].pc = "statusUpdate" /\ frames'[f] # frames[f])
            => \/ /\ frames'[f].pc \in {"immediate", "free"}
                  /\ status'[TaskOf(f)] = Transition(frames[f].sts)
               \/ Rejects(f) /\ status' = status]_vars

\* C19 witness: the results of a turn of two tool uses are persisted and the
\* status write the turn asked for is pending, the task still RUNNING.
C19_Witness ==
  \E f \in FrameIds :
    /\ frames[f].pc = "statusUpdate"
    /\ frames[f].nres = 2
    /\ status[TaskOf(f)] = "RUNNING"

\* C20: an iteration that a cancellation reached before its provider call
\* hands that call a signal that is already aborted.
C20_CancellationObserved ==
  [][\A f \in FrameIds :
       (frames[f].pc = "assemble" /\ frames[f].hit /\ frames'[f].pc = "llm")
         => frames'[f].sig = "aborted"]_vars

\* C21: a step of the summarization that fails (the provider call, with an
\* Interrupt or another error, the creation of the summary, attachSummary)
\* writes no task status and leaves the processor's state alone, and the
\* iteration goes on exactly as a turn without summarization does: the block
\* loop runs on the assistant response and the next iteration is scheduled.
SummaryStep(f) ==
  frames[f].pc \in SummaryPcs /\ frames'[f].pc # frames[f].pc
C21_SummarizationFailureSwallowed ==
  [][\A f \in FrameIds :
       SummaryStep(f) =>
         /\ status' = status
         /\ isProcessing' = isProcessing
         /\ currentTaskId' = currentTaskId
         /\ \/ frames[f].pc = "summarize" /\ frames'[f].pc = "createSummary"
            \/ frames[f].pc = "createSummary" /\ frames'[f].pc = "attachSummary"
            \/ frames'[f] = Settle(Sweep([frames[f] EXCEPT !.sig = "none",
                                                          !.cur = FALSE]))]_vars
C21_Witness ==
  /\ last = <<"SummaryThrew", "t1">>
  /\ status["t1"] = "RUNNING"
  /\ isProcessing
  /\ \E f \in FrameIds : frames[f].pc = "tool" /\ frames[f].task = "t1"

\* C22: summarization is attempted in a turn exactly when
\* 4 * totalTokens >= 3 * contextWindow, the context window being the
\* descriptor's value when it carries one and 200000 when it carries none.
C22_SummarizeAtThreshold ==
  shouldSummarize # << >> =>
    (shouldSummarize[1] <=>
       4 * totalTokens >=
         3 * (IF contextWindow = << >> THEN DEFAULT_CONTEXT_WINDOW
              ELSE contextWindow[1]))

\* C23: the resolver's output equals the reference of rules 1-4 applied in
\* order.  Rule 1, an object with string provider and string name: both are
\* used, the title defaults to the name, a numeric contextWindow is carried.
\* Rule 2, any other object with a string name: the provider is inferred
\* from the name, claude* anthropic, gemini* google, gpt-* or a substring
\* openai openai, else proxy.  Rule 3, a string: a name with the same
\* inference, and its own title.  Rule 4, anything else: the default
\* descriptor.  As stated, rule 2 makes the name the title; amended, rule 2
\* takes the title of the object when that is a string, as rule 1 does.
RuleProvider(name) ==
  CASE StartsWith(name, "claude") -> <<"anthropic">>
    [] ~StartsWith(name, "claude") /\ StartsWith(name, "gemini") -> <<"google">>
    [] /\ ~StartsWith(name, "claude") /\ ~StartsWith(name, "gemini")
       /\ (StartsWith(name, "gpt-") \/ Includes(name, "openai")) -> <<"openai">>
    [] OTHER -> <<"proxy">>
RuleOne(raw) ==
  raw.type = "object" /\ raw.provider.type = "string" /\ raw.name.type = "string"
RuleTwo(raw) == raw.type = "object" /\ raw.name.type = "string" /\ ~RuleOne(raw)
RuleThree(raw) == raw.type = "string"
TitleOrName(raw) ==
  IF raw.title.type = "string" THEN raw.title.str ELSE raw.name.str
Reference(raw, titled) ==
  CASE RuleOne(raw) ->
         [provider |-> raw.provider.str, name |-> raw.name.str,
          title |-> TitleOrName(raw),
          contextWindow |-> IF raw.contextWindow.type = "number" THEN "number"
                            ELSE "undefined"]
    [] RuleTwo(raw) ->
         [provider |-> RuleProvider(raw.name.str), name |-> raw.name.str,
          title |-> IF titled THEN TitleOrName(raw) ELSE raw.name.str,
          contextWindow |-> "undefined"]
    [] RuleThree(raw) ->
         [provider |-> RuleProvider(raw.str), name |-> raw.str,
          title |-> raw.str, contextWindow |-> "undefined"]
    [] OTHER ->
         [provider |-> <<"openai">>, name |-> <<"gpt-", "4.1-mini">>,
          title |-> <<"gpt-", "4.1-mini">>, contextWindow |-> "undefined"]
C23_ResolverMatchesRules ==
  model # << >> => model[1] = Reference(rawModel, TRUE)
C23_ResolverMatchesRulesAsStated ==
  model # << >> => model[1] = Reference(rawModel, FALSE)
C23_Witness ==
  /\ model # << >>
  /\ RuleTwo(rawModel)
  /\ rawModel.title.type = "string"
  /\ rawModel.title.str # rawModel.name.str
  /\ model[1].provider = <<"anthropic">>

\* C24: a turn whose set_task_status block names a status other than
\* completed and needs_help ('failed') writes no task status once its tool
\* result is persisted: the iteration ends there, scheduling the next one
\* if the processor is still processing and nothing otherwise. (When
\* persisting the result rejects, the error goes to the outer catch.)
IgnoredStatus(f) ==
  frames[f].pc = "persistResults" /\ frames[f].sts = "failed"
C24_FailedStatusIgnored ==
  [][\A f \in FrameIds :
       IgnoredStatus(f) /\ frames'[f] # frames[f] =>
         /\ status' = status
         /\ \/ frames'[f].pc = IF isProcessing THEN "immediate" ELSE "free"
            \/ Rejects(f)]_vars
C24_Witness ==
  \E f \in FrameIds :
    /\ IgnoredStatus(f)
    /\ frames[f].nres >= 1
    /\ frames[f].blocks = << >>
    /\ status[frames[f].task] = "RUNNING"
    /\ isProcessing

\* C25: a task.cancel event for a task other than the current one leaves the
\* task being processed alone: its cancellation handle is not signalled and
\* no stop that would clear isProcessing and currentTaskId is begun.
C25_CancelOfOtherTaskIgnored ==
  [][\A t \in Tasks :
       isProcessing /\ t # currentTaskId /\ HandleTaskCancel(t) =>
         /\ abortController' = abortController
         /\ stopPending' = stopPending
         /\ frames' = frames]_vars

\* C26: while B is the current task, no step of an iteration of another task
\* A (one that was running when A was stopped) clears isProcessing or
\* currentTaskId.
StaleStep(f) ==
  /\ isProcessing
  /\ frames[f].pc # "free"
  /\ frames[f].task # currentTaskId
  /\ frames'[f].pc # frames[f].pc
C26_StaleIterationKeepsCurrent ==
  [][\A f \in FrameIds :
       StaleStep(f) =>
         isProcessing' /\ currentTaskId' = currentTaskId]_vars

\* C27: the processor is never stuck busy: whenever isProcessing is true, an
\* iteration of the current task is in flight or scheduled (a setImmediate
\* callback or a retry timer is pending).
C27_NeverStuckBusy ==
  isProcessing =>
    \E f \in FrameIds :
      frames[f].pc # "free" /\ frames[f].task = currentTaskId

\* C28: computerToolsDisabled[task] is never reset once set; from then on a
\* result of the computer tool, failing or not, never takes the iteration to
\* the degradation and changes no task status; the degradation is entered
\* only by a task whose flag is not set, hence at most once per task,
\* however often the task is handed to processTask again.
C28_DegradeOnce ==
  [][/\ \A t \in Tasks :
          Flag(computerToolsDisabled, t) => Flag(computerToolsDisabled', t)
     /\ \A f \in FrameIds :
          /\ frames[f].pc = "tool"
          /\ Flag(computerToolsDisabled, frames[f].task)
          /\ frames'[f] # frames[f]
          => /\ frames'[f].pc # "degrade"
             /\ status' = status
             /\ isProcessing' = isProcessing
     /\ \A f \in FrameIds :
          frames[f].pc # "degrade" /\ frames'[f].pc = "degrade"
          => ~Flag(computerToolsDisabled, frames'[f].task)]_vars
C28_Witness ==
  /\ Flag(computerToolsDisabled, "t1")
  /\ Get(computerToolFailures, "t1") > FAILURE_THRESHOLD
  /\ status["t1"] = "RUNNING"
  /\ isProcessing
  /\ \E f \in FrameIds :
       frames[f].task = "t1" /\ frames[f].pc \in {"tool", "persistResults"}

====
